---- MODULE Spec2Model ----
(***************************************************************************)
(* Policy layer of the sandbox extension: path access policy               *)
(* (src/src/file-ops.ts), command bypass policy and the supervised child   *)
(* process (src/src/sandbox-ops.ts).                                       *)
(*                                                                         *)
(* A JavaScript string is a sequence of one-character strings, so that     *)
(* startsWith, includes, slice, endsWith and the matchers work on          *)
(* characters exactly as the code does.                                    *)
(***************************************************************************)
EXTENDS Integers, Sequences, FiniteSets, TLC

VARIABLES
    fsOp,        \* which path-policy function is applied: "match", "read", "write"
    fsPath,      \* its path argument
    fsPattern,   \* pathMatchesPattern's pattern argument
    fsCwd,       \* its cwd argument
    fsConfig,    \* config.filesystem: [present, denyRead, allowWrite, denyWrite]
    fsDone,      \* the call has returned
    fsResult,    \* the returned boolean
    cmdCommand,  \* isUnsandboxedCommand's command argument
    cmdPatterns, \* its unsandboxedCommands argument
    cmdDone,     \* the call has returned
    cmdResult,   \* the returned boolean
    exPc,        \* position of exec: "idle", "called", "wrapping", "spawned", "thrown"
    exCwdExists, \* existsSync(cwd)
    exTimeout,   \* the timeout option: [def, v]
    exHasSignal, \* a cancel signal was passed
    exAborted,   \* signal.aborted
    exAbortAt,   \* where exec was when the signal fired ("none" while it has not)
    exListener,  \* onAbort is registered on the signal
    exTimer,     \* timeoutHandle: "none", "armed", "fired", "cleared"
    exTimedOut,  \* the timedOut flag
    exChild,     \* the child: "none", "spawnFailed", "errored", "running", "exited", "closed"
    exPid,       \* child.pid is defined
    exGroupAlive,\* the child's process group still has a process
    exPipesHeldBy,\* who keeps the child's stdout / stderr open: "nobody", "child",
                 \* "group" (a descendant in its group), "outside" (one that left it)
    exExit,      \* the code the close event carries
    exKills,     \* the kill calls made, in order
    exData,      \* the chunks handed to onData, in order
    exAnnotated, \* what annotateStderrWithSandboxFailures returned ("unqueried" before)
    exOutcome,   \* how the promise settled
    exSettles,   \* number of resolve / reject calls made
    ssPc,        \* the extension: "idle", "loaded", "awaiting" (initialize pending), "done"
    ssNoSandbox, \* the --no-sandbox flag
    ssLoaded,    \* what loadConfig returns
    ssPlatformOk,\* process.platform is darwin or linux
    ssInitialize,\* how SandboxManager.initialize settled: "none", "ok", "failed"
    stEnabled,   \* state.enabled
    stConfig,    \* state.config
    tlCall       \* the last decision of a tool wrapper or of the user_bash hook

fsVars == <<fsOp, fsPath, fsPattern, fsCwd, fsConfig, fsDone, fsResult>>

cmdVars == <<cmdCommand, cmdPatterns, cmdDone, cmdResult>>

exVars == <<exPc, exCwdExists, exTimeout, exHasSignal, exAborted, exAbortAt, exListener,
            exTimer, exTimedOut, exChild, exPid, exGroupAlive, exPipesHeldBy, exExit, exKills,
            exData, exAnnotated, exOutcome, exSettles>>

ssVars == <<ssPc, ssNoSandbox, ssLoaded, ssPlatformOk, ssInitialize, stEnabled, stConfig,
            tlCall>>

vars == <<fsVars, cmdVars, exVars, ssVars>>

-----------------------------------------------------------------------------
(* Bounds of the model *)

\* longest absolute path, in segments, that pathMatchesPattern is asked about
MaxDepth == 3

\* longest denyRead / allowWrite / denyWrite list of a configuration
MaxList == 2

\* longest command body, in atoms (words, blanks, quotes, operators)
MaxAtoms == 3

\* largest timeout, in seconds, passed to exec
MaxTimeout == 2

\* most stdout / stderr chunks a child writes
MaxChunks == 1

-----------------------------------------------------------------------------
(* String primitives of the JavaScript runtime *)

StartsWith(s, p) == Len(s) >= Len(p) /\ SubSeq(s, 1, Len(p)) = p

EndsWith(s, p) == Len(s) >= Len(p) /\ SubSeq(s, Len(s) - Len(p) + 1, Len(s)) = p

Includes(s, c) == \E i \in 1..Len(s) : s[i] = c

\* s.slice(n) for 0 <= n
Slice(s, n) == SubSeq(s, n + 1, Len(s))

\* all sequences over S of length lo..hi
SeqsOf(S, lo, hi) == UNION {[1..k -> S] : k \in lo..hi}

RECURSIVE Flatten(_)
\* concatenation of a sequence of strings
Flatten(ss) == IF ss = <<>> THEN <<>> ELSE Head(ss) \o Flatten(Tail(ss))

-----------------------------------------------------------------------------
(* node:os and node:path *)

\* os.homedir() of the session
homedir == <<"/", "h">>

isAbsolute(p) == Len(p) > 0 /\ p[1] = "/"

RECURSIVE SplitFrom(_, _, _)
\* the "/"-separated segments of s[i..], cur being the segment read so far
SplitFrom(s, i, cur) ==
    IF i > Len(s) THEN <<cur>>
    ELSE IF s[i] = "/" THEN <<cur>> \o SplitFrom(s, i + 1, <<>>)
    ELSE SplitFrom(s, i + 1, Append(cur, s[i]))

Split(s) == SplitFrom(s, 1, <<>>)

RECURSIVE NormalizeSegs(_, _)
\* path.resolve's normalizeString for an absolute path: empty and "." segments
\* are dropped, ".." removes the segment before it (and nothing at the root)
NormalizeSegs(segs, acc) ==
    IF segs = <<>> THEN acc
    ELSE LET s == Head(segs) IN
         IF s = <<>> \/ s = <<".">> THEN NormalizeSegs(Tail(segs), acc)
         ELSE IF s = <<".", ".">>
              THEN NormalizeSegs(Tail(segs),
                                 IF acc = <<>> THEN acc ELSE SubSeq(acc, 1, Len(acc) - 1))
              ELSE NormalizeSegs(Tail(segs), Append(acc, s))

\* "/" + segments joined by "/"
JoinAbs(segs) ==
    IF segs = <<>> THEN <<"/">>
    ELSE Flatten([i \in 1..Len(segs) |-> <<"/">> \o segs[i]])

\* path.resolve(cwd, p) for an absolute cwd
resolve(cwd, p) ==
    IF isAbsolute(p) THEN JoinAbs(NormalizeSegs(Split(p), <<>>))
    ELSE JoinAbs(NormalizeSegs(Split(cwd \o <<"/">> \o p), <<>>))

-----------------------------------------------------------------------------
(* picomatch 4, as file-ops.ts calls it (default options: dot = false).    *)
(* Globs are over literal characters, ".", "/", "?" and "*"; the only      *)
(* brace expression is the suffix pathMatchesPattern appends itself.       *)
(* makeRe compiles a glob into a regular expression, kept here as a        *)
(* sequence of items, and the expression is matched from "^" to "$".       *)

\* utils.basename: the last "/"-separated segment, or the one before it when
\* the last is empty (one trailing slash is dropped, not more)
basename(p) ==
    LET segs == Split(p)
        last == segs[Len(segs)]
    IN IF last # <<>> THEN last
       ELSE IF Len(segs) >= 2 THEN segs[Len(segs) - 1]
       ELSE <<>>

\* the suffix appended to a pattern without wildcards: "{,/**}"
ChildrenSuffix == <<"{", ",", "/", "*", "*", "}">>

\* an item of a compiled expression
Item(k) == [k |-> k, c |-> "", alts |-> <<>>]

\* a literal character
Lit(c) == [k |-> "lit", c |-> c, alts |-> <<>>]

\* (?:a|b|...)
Alt(alts) == [k |-> "alt", c |-> "", alts |-> alts]

\* the literal characters of s
Lits(s) == [i \in 1..Len(s) |-> Lit(s[i])]

STAR == Item("star")              \* [^/]*?
QMARK == Item("qmark")            \* [^/]
QMARK_NO_DOT == Item("qmarkNoDot") \* [^./]
ONE_CHAR == Item("oneChar")       \* (?=.)
NO_DOT == Item("noDot")           \* (?!\.)
NO_DOT_SLASH == Item("noDotSlash") \* (?!\.{0,1}(?:\/|$))
GLOBSTAR == Item("globstar")      \* (?:(?!(?:^|\/)\.).)*?
MAYBE_SLASH == Item("maybeSlash") \* \/?
ANY_CHAR == Item("anyChar")       \* .
BOS == Item("bos")                \* ^
EOS == Item("eos")                \* $

\* the characters "." of a regular expression without the s flag does not
\* match: line feed, carriage return, U+2028 and U+2029 (the last two are
\* written by their code point, each standing for the one character)
LineTerminators == {"\n", "\r", "U+2028", "U+2029"}

RECURSIVE RegexMatch(_, _, _)
\* the items match str[i..] up to its end
RegexMatch(items, str, i) ==
    IF items = <<>> THEN i > Len(str)
    ELSE LET h == Head(items)
             t == Tail(items)
             more == i <= Len(str)
         IN CASE h.k = "lit" -> more /\ str[i] = h.c /\ RegexMatch(t, str, i + 1)
              [] h.k = "qmark" -> more /\ str[i] # "/" /\ RegexMatch(t, str, i + 1)
              [] h.k = "qmarkNoDot" ->
                    more /\ str[i] \notin {"/", "."} /\ RegexMatch(t, str, i + 1)
              [] h.k = "star" ->
                    \E k \in i..Len(str) + 1 :
                        /\ \A q \in i..k - 1 : str[q] # "/"
                        /\ RegexMatch(t, str, k)
              [] h.k = "globstar" ->
                    \E k \in i..Len(str) + 1 :
                        /\ \A q \in i..k - 1 :
                              /\ str[q] \notin LineTerminators
                              /\ ~(q = 1 /\ str[q] = ".")
                              /\ ~(str[q] = "/" /\ q < Len(str) /\ str[q + 1] = ".")
                        /\ RegexMatch(t, str, k)
              [] h.k = "anyChar" ->
                    more /\ str[i] \notin LineTerminators /\ RegexMatch(t, str, i + 1)
              [] h.k = "oneChar" ->
                    more /\ str[i] \notin LineTerminators /\ RegexMatch(t, str, i)
              [] h.k = "noDot" -> ~(more /\ str[i] = ".") /\ RegexMatch(t, str, i)
              [] h.k = "noDotSlash" ->
                    /\ more /\ str[i] # "/"
                    /\ ~(str[i] = "." /\ (i = Len(str) \/ str[i + 1] = "/"))
                    /\ RegexMatch(t, str, i)
              [] h.k = "maybeSlash" ->
                    \/ RegexMatch(t, str, i)
                    \/ more /\ str[i] = "/" /\ RegexMatch(t, str, i + 1)
              [] h.k = "bos" -> i = 1 /\ RegexMatch(t, str, i)
              [] h.k = "eos" -> ~more /\ RegexMatch(t, str, i)
              [] h.k = "alt" ->
                    \E a \in 1..Len(h.alts) : RegexMatch(h.alts[a] \o t, str, i)

\* \w
WordChars ==
    {"a", "b", "c", "d", "e", "f", "g", "h", "i", "j", "k", "l", "m", "n", "o", "p", "q",
     "r", "s", "t", "u", "v", "w", "x", "y", "z",
     "A", "B", "C", "D", "E", "F", "G", "H", "I", "J", "K", "L", "M", "N", "O", "P", "Q",
     "R", "S", "T", "U", "V", "W", "X", "Y", "Z",
     "0", "1", "2", "3", "4", "5", "6", "7", "8", "9", "_"}

\* /^\w+$/
isWord(s) == s # <<>> /\ \A i \in 1..Len(s) : s[i] \in WordChars

\* utils.removePrefix: a leading "./" is dropped
removePrefix(input) == IF StartsWith(input, <<".", "/">>) THEN Slice(input, 2) ELSE input

\* REPLACEMENTS of lib/constants.js
replaced(input) ==
    IF input = <<"*", "*", "*">> THEN <<"*">>
    ELSE IF input \in { <<"*", "*", "/", "*", "*">>,
                        <<"*", "*", "/", "*", "*", "/", "*", "*">> } THEN <<"*", "*">>
    ELSE input

\* no expression
NoRegex == [ok |-> FALSE, re |-> <<>>]

\* (?:(?!\.)globstar\/)?
GlobstarDirs == Alt(<< <<>>, <<NO_DOT, GLOBSTAR, Lit("/")>> >>)

RECURSIVE create(_)
\* create of parse.fastpaths: the table of common globs, each also followed
\* by an extension (".", then word characters up to the end)
create(str) ==
    CASE str = <<"*">> -> [ok |-> TRUE, re |-> <<NO_DOT, ONE_CHAR, STAR>>]
      [] str = <<".", "*">> -> [ok |-> TRUE, re |-> <<Lit("."), ONE_CHAR, STAR>>]
      [] str = <<"*", ".", "*">> ->
            [ok |-> TRUE, re |-> <<NO_DOT, STAR, Lit("."), ONE_CHAR, STAR>>]
      [] str = <<"*", "/", "*">> ->
            [ok |-> TRUE, re |-> <<NO_DOT, STAR, Lit("/"), ONE_CHAR, NO_DOT, STAR>>]
      [] str = <<"*", "*">> -> [ok |-> TRUE, re |-> <<NO_DOT, GLOBSTAR>>]
      [] str = <<"*", "*", "/", "*">> ->
            [ok |-> TRUE, re |-> <<GlobstarDirs, NO_DOT, ONE_CHAR, STAR>>]
      [] str = <<"*", "*", "/", "*", ".", "*">> ->
            [ok |-> TRUE, re |-> <<GlobstarDirs, NO_DOT, STAR, Lit("."), ONE_CHAR, STAR>>]
      [] str = <<"*", "*", "/", ".", "*">> ->
            [ok |-> TRUE, re |-> <<GlobstarDirs, Lit("."), ONE_CHAR, STAR>>]
      [] OTHER ->
            LET dots == {d \in 1..Len(str) : str[d] = "." /\ isWord(Slice(str, d))} IN
            IF dots = {} THEN NoRegex
            ELSE LET d == CHOOSE x \in dots : TRUE
                     source == create(SubSeq(str, 1, d - 1))
                 IN IF ~source.ok THEN NoRegex
                    ELSE [ok |-> TRUE, re |-> source.re \o Lits(Slice(str, d - 1))]

\* parse.fastpaths
fastpaths(input) ==
    LET source == create(removePrefix(replaced(input))) IN
    IF source.ok THEN [ok |-> TRUE, re |-> Append(source.re, MAYBE_SLASH)] ELSE NoRegex

\* the characters that keep parse away from its replace-only path:
\* / ( ) [ ] { } "
ParseSpecial == {"/", "(", ")", "[", "]", "{", "}", "\""}

RECURSIVE replaceSpecial(_, _)
\* the replace-only path of parse, from input[j]: a run of stars is one star,
\* a question mark at index 0 refuses a dot, everything else is literal
replaceSpecial(input, j) ==
    IF j > Len(input) THEN <<>>
    ELSE LET c == input[j] IN
         IF c = "*"
         THEN IF j > 1 /\ input[j - 1] = "*" THEN replaceSpecial(input, j + 1)
              ELSE <<STAR>> \o replaceSpecial(input, j + 1)
         ELSE IF c = "?"
         THEN <<IF j = 1 THEN QMARK_NO_DOT ELSE QMARK>> \o replaceSpecial(input, j + 1)
         ELSE <<Lit(c)>> \o replaceSpecial(input, j + 1)

\* the number of stars r begins with
RECURSIVE StarRun(_)
StarRun(r) == IF r # <<>> /\ r[1] = "*" THEN 1 + StarRun(Tail(r)) ELSE 0

RECURSIVE stripGlobstars(_)
\* "strip consecutive /**/": after "**", each following "/**" that ends the
\* glob or is followed by "/" is consumed
stripGlobstars(rest) ==
    IF /\ Len(rest) >= 3
       /\ SubSeq(rest, 1, 3) = <<"/", "*", "*">>
       /\ (Len(rest) = 3 \/ rest[4] = "/")
    THEN stripGlobstars(Slice(rest, 3))
    ELSE rest

\* the star a third star leaves of a globstar: parse sets state.backtrack
\* with it
STAR_BACKTRACK == [k |-> "star", c |-> "backtrack", alts |-> <<>>]

RECURSIVE tokenize(_, _, _)
\* the token loop of parse on what remains of the glob, prev being the type
\* of the token before it: "bos", "slash", "dot", "text", "qmark", "star" or
\* "globstar". The result is state.output, or with rebuilt the output parse
\* puts together from the tokens once state.backtrack is set: there push has
\* merged a text token into the text token before it by its value, so a "."
\* after a text token is the bare dot, and the first token has kept the
\* (?!\.) of a leading "**/".
tokenize(r, prev, rebuilt) ==
    IF r = <<>> THEN IF prev = "star" THEN <<MAYBE_SLASH>> ELSE <<>>
    ELSE IF r = ChildrenSuffix
    THEN << Alt(<< <<>>, <<Lit("/"), NO_DOT, GLOBSTAR>> >>) >>
    ELSE LET c == r[1]
             isStart == prev \in {"bos", "slash"}
         IN
         IF c = "/"
         THEN IF StarRun(Tail(r)) = 2
              THEN \* "/**": the slash is prior, the token before it prior.prev
                   LET rest == stripGlobstars(Slice(r, 3))
                       afterStar == prev \in {"star", "globstar"}
                   IN IF prev # "bos" /\ ~afterStar /\ rest = <<>>
                      THEN << Alt(<< <<Lit("/"), NO_DOT, GLOBSTAR>>, <<EOS>> >>) >>
                      ELSE IF prev # "bos" /\ rest # <<>> /\ rest[1] = "/"
                      THEN << Alt(<< <<Lit("/"), NO_DOT, GLOBSTAR, Lit("/")>>,
                                     <<Lit("/")>> >>
                                  \o (IF Len(rest) >= 2 THEN << <<EOS>> >> ELSE <<>>)) >>
                           \o tokenize(Tail(rest), "slash", rebuilt)
                      ELSE IF rest # <<>> /\ rest[1] # "/"
                      THEN <<Lit("/"), NO_DOT, STAR>> \o tokenize(rest, "star", rebuilt)
                      ELSE <<Lit("/"), NO_DOT, GLOBSTAR>> \o tokenize(rest, "globstar", rebuilt)
              ELSE <<Lit("/")>> \o tokenize(Tail(r), "slash", rebuilt)
         ELSE IF c = "."
         THEN IF prev = "bos" /\ Len(r) >= 2 /\ r[2] = "/"
              THEN tokenize(Slice(r, 2), "bos", rebuilt)
              ELSE <<IF rebuilt /\ prev = "text" THEN ANY_CHAR ELSE Lit(".")>>
                   \o tokenize(Tail(r), IF isStart THEN "dot" ELSE "text", rebuilt)
         ELSE IF c = "?"
         THEN <<IF isStart THEN QMARK_NO_DOT ELSE QMARK>>
              \o tokenize(Tail(r), "qmark", rebuilt)
         ELSE IF c = "*"
         THEN LET n == StarRun(r)
                  rest == stripGlobstars(Slice(r, 2))
                  guard == IF prev = "dot" THEN <<NO_DOT_SLASH>>
                           ELSE IF isStart THEN <<NO_DOT>>
                           ELSE <<>>
              IN IF n = 1
                 THEN guard \o (IF guard # <<>> THEN <<ONE_CHAR>> ELSE <<>>) \o <<STAR>>
                      \o tokenize(Tail(r), "star", rebuilt)
                 ELSE IF n = 2 /\ prev = "bos" /\ rest = <<>>
                 THEN <<GLOBSTAR>>
                 ELSE IF n = 2 /\ prev = "bos" /\ rest[1] = "/"
                 THEN (IF rebuilt THEN <<NO_DOT>> ELSE <<>>)
                      \o << Alt(<< <<BOS>>, <<Lit("/")>>, <<GLOBSTAR, Lit("/")>> >>) >>
                      \o tokenize(Tail(rest), "slash", rebuilt)
                 ELSE IF n >= 3 /\ isStart
                 THEN \* the second star makes a globstar, the third a star again
                      guard \o <<STAR_BACKTRACK>> \o tokenize(Slice(r, n), "star", rebuilt)
                 ELSE guard \o <<STAR>> \o tokenize(Slice(r, n), "star", rebuilt)
         ELSE <<Lit(c)>> \o tokenize(Tail(r), "text", rebuilt)

\* state.backtrack at the end of the token loop
backtrack(output) == \E i \in 1..Len(output) : output[i] = STAR_BACKTRACK

\* parse: the replace-only path for a glob that starts with neither "*" nor
\* "!" and has none of / ( ) [ ] { } ", the token loop otherwise, with the
\* output rebuilt from the tokens when state.backtrack is set
picomatchParse(glob) ==
    LET input == removePrefix(replaced(glob)) IN
    IF /\ input # <<>> => input[1] \notin {"*", "!"}
       /\ \A i \in 1..Len(input) : input[i] \notin ParseSpecial
    THEN replaceSpecial(input, 1)
    ELSE LET output == tokenize(input, "bos", FALSE) IN
         IF backtrack(output) THEN tokenize(input, "bos", TRUE) ELSE output

\* picomatch.makeRe: parse.fastpaths for a glob that starts with "." or "*",
\* parse when that gives nothing
makeRe(glob) ==
    LET fast == IF glob[1] \in {".", "*"} THEN fastpaths(glob) ELSE NoRegex IN
    IF fast.ok THEN fast.re ELSE picomatchParse(glob)

\* picomatch.isMatch(input, glob, {matchBase}): an empty input never matches,
\* an input equal to the glob text always does, and with matchBase the
\* expression is tested against utils.basename of the input
picomatchIsMatch(input, glob, matchBase) ==
    IF input = <<>> THEN FALSE
    ELSE IF input = glob THEN TRUE
    ELSE IF matchBase THEN RegexMatch(makeRe(glob), basename(input), 1)
    ELSE RegexMatch(makeRe(glob), input, 1)

-----------------------------------------------------------------------------
(* src/src/file-ops.ts *)

\* "~" expansion of a pattern
expandTilde(p) ==
    IF StartsWith(p, <<"~", "/">>) THEN homedir \o Slice(p, 1)
    ELSE IF p = <<"~">> THEN homedir
    ELSE p

\* resolution of ".", "./x" and "dir/x" patterns against cwd
resolvePattern(p, cwd) ==
    IF p = <<".">> THEN cwd
    ELSE IF StartsWith(p, <<".", "/">>) THEN cwd \o Slice(p, 1)
    ELSE IF ~StartsWith(p, <<"/">>) /\ Includes(p, "/") THEN cwd \o <<"/">> \o p
    ELSE p

hasWildcard(p) == Includes(p, "*") \/ Includes(p, "?")

pathMatchesPattern(path, pattern, cwd) ==
    LET p == resolvePattern(expandTilde(pattern), cwd)
        useMatchBase == ~Includes(p, "/")
        glob == IF ~hasWildcard(p) THEN p \o ChildrenSuffix ELSE p
    IN picomatchIsMatch(path, glob, useMatchBase)

resolvePath(path, cwd) ==
    LET p == IF StartsWith(path, <<"~", "/">>) THEN homedir \o Slice(path, 1)
             ELSE IF path = <<"~">> THEN homedir
             ELSE path
    IN IF ~isAbsolute(p) THEN resolve(cwd, p) ELSE p

\* denyRead.some(pattern => pathMatchesPattern(absolutePath, pattern, cwd))
someMatch(list, absolutePath, cwd) ==
    \E k \in 1..Len(list) : pathMatchesPattern(absolutePath, list[k], cwd)

\* an optional list of the configuration that is present
isSet(l) == l.def /\ Len(l.v) > 0

isReadAllowed(path, cwd, config) ==
    LET absolutePath == resolvePath(path, cwd)
        denyRead == config.denyRead
    IN IF ~(config.present /\ isSet(denyRead)) THEN TRUE
       ELSE ~someMatch(denyRead.v, absolutePath, cwd)

\* isWriteAllowed with the allow list consulted before the deny list
isWriteAllowedAllowFirst(path, cwd, config) ==
    LET absolutePath == resolvePath(path, cwd)
        allowWrite == config.allowWrite
        denyWrite == config.denyWrite
    IN IF config.present /\ isSet(allowWrite) /\ someMatch(allowWrite.v, absolutePath, cwd)
       THEN TRUE
       ELSE IF config.present /\ isSet(denyWrite) /\ someMatch(denyWrite.v, absolutePath, cwd)
       THEN FALSE
       ELSE ~(config.present /\ isSet(allowWrite))

\* isWriteAllowed without the allow-list check
isWriteAllowedNoAllowList(path, cwd, config) ==
    LET absolutePath == resolvePath(path, cwd)
        denyWrite == config.denyWrite
    IN ~(config.present /\ isSet(denyWrite) /\ someMatch(denyWrite.v, absolutePath, cwd))

isWriteAllowed(path, cwd, config) ==
    LET absolutePath == resolvePath(path, cwd)
        allowWrite == config.allowWrite
        denyWrite == config.denyWrite
    IN IF config.present /\ isSet(denyWrite) /\ someMatch(denyWrite.v, absolutePath, cwd)
       THEN FALSE
       ELSE IF config.present /\ isSet(allowWrite)
       THEN someMatch(allowWrite.v, absolutePath, cwd)
       ELSE TRUE

-----------------------------------------------------------------------------
(* shell-quote's parse, as sandbox-ops.ts calls it (no env, no options).   *)
(* Commands are over words, white space, quotes, "*", "?", "#" and the     *)
(* control characters; backslash escapes and "$" expansion are not in the  *)
(* alphabet.                                                               *)
(* A token is [t |-> "str" | "glob" | "op" | "comment", v |-> text].       *)

\* the characters String.prototype.trim / trimEnd remove and \s of a regular
\* expression matches: tab, line feed, vertical tab, form feed, carriage
\* return, space, no-break space, the other space separators, the line and
\* paragraph separators and the byte order mark (those without an escape are
\* written by their code point, each standing for the one character)
WhiteSpace ==
    {" ", "\t", "\n", "\r", "\f", "U+000B", "U+00A0", "U+1680", "U+2000", "U+2001",
     "U+2002", "U+2003", "U+2004", "U+2005", "U+2006", "U+2007", "U+2008", "U+2009",
     "U+200A", "U+2028", "U+2029", "U+202F", "U+205F", "U+3000", "U+FEFF"}

\* META of shell-quote: characters that end a bare word
Meta == {"|", "&", ";", "(", ")", "<", ">", " ", "\t"}

Quotes == {"'", "\""}

\* the multi-character alternatives of CONTROL, in the order the regular
\* expression tries them
ControlOps ==
    << <<"|", "|">>, <<"&", "&">>, <<";", ";">>, <<"|", "&">>, <<"<", "(">>,
       <<"<", "<", "<">>, <<">", ">">>, <<">", "&">>, <<"<", "&">> >>

\* its single-character alternative [&;()|<>]
ControlChars == {"&", ";", "(", ")", "|", "<", ">"}

\* length of the control operator that starts at s[i], 0 when none does
ControlAt(s, i) ==
    LET hits == {k \in 1..Len(ControlOps) : StartsWith(Slice(s, i - 1), ControlOps[k])} IN
    IF hits # {} THEN Len(ControlOps[CHOOSE k \in hits : \A m \in hits : k <= m])
    ELSE IF s[i] \in ControlChars THEN 1
    ELSE 0

\* index of the quote that closes the one at s[i], 0 when it stays open
ClosingQuote(s, i) ==
    LET c == {k \in (i + 1)..Len(s) : s[k] = s[i]} IN
    IF c = {} THEN 0 ELSE CHOOSE k \in c : \A m \in c : k <= m

RECURSIVE WordEnd(_, _)
\* index after the word chunk (bare characters and closed quotes) that starts
\* at s[i]; i itself when no chunk starts there
WordEnd(s, i) ==
    IF i > Len(s) THEN i
    ELSE IF s[i] \in Quotes
    THEN IF ClosingQuote(s, i) = 0 THEN i ELSE WordEnd(s, ClosingQuote(s, i) + 1)
    ELSE IF s[i] \in WhiteSpace \cup Meta THEN i
    ELSE WordEnd(s, i + 1)

RECURSIVE ScanWord(_, _, _, _, _, _)
\* the quoting scanner on the word chunk s[i..e-1] of the input s: the tokens
\* it yields, ending with a comment token when an unquoted "#" is met; the
\* comment is the rest of the input after the "#", not of the chunk
ScanWord(s, i, e, quote, out, isGlob) ==
    IF i >= e
    THEN IF isGlob THEN << [t |-> "glob", v |-> out] >> ELSE << [t |-> "str", v |-> out] >>
    ELSE LET c == s[i]
             g == isGlob \/ (quote = "" /\ c \in {"*", "?"})
         IN IF quote # ""
            THEN IF c = quote THEN ScanWord(s, i + 1, e, "", out, g)
                 ELSE ScanWord(s, i + 1, e, quote, Append(out, c), g)
            ELSE IF c \in Quotes THEN ScanWord(s, i + 1, e, c, out, g)
            ELSE IF c = "#"
            THEN (IF out # <<>> THEN << [t |-> "str", v |-> out] >> ELSE <<>>)
                     \o << [t |-> "comment", v |-> Slice(s, i)] >>
            ELSE ScanWord(s, i + 1, e, "", Append(out, c), g)

RECURSIVE ParseFrom(_, _)
\* the tokens of s[i..]: control operators, word chunks, nothing after a comment
ParseFrom(s, i) ==
    IF i > Len(s) THEN <<>>
    ELSE IF ControlAt(s, i) > 0
    THEN << [t |-> "op", v |-> SubSeq(s, i, i + ControlAt(s, i) - 1)] >>
             \o ParseFrom(s, i + ControlAt(s, i))
    ELSE LET e == WordEnd(s, i) IN
         IF e = i THEN ParseFrom(s, i + 1)
         ELSE LET toks == ScanWord(s, i, e, "", <<>>, FALSE) IN
              IF toks[Len(toks)].t = "comment" THEN toks
              ELSE toks \o ParseFrom(s, e)

\* parse(s)
parse(s) == ParseFrom(s, 1)

RECURSIVE trimEnd(_)
trimEnd(s) ==
    IF s # <<>> /\ s[Len(s)] \in WhiteSpace THEN trimEnd(SubSeq(s, 1, Len(s) - 1)) ELSE s

RECURSIVE trimStart(_)
trimStart(s) ==
    IF s # <<>> /\ Head(s) \in WhiteSpace THEN trimStart(Tail(s)) ELSE s

trim(s) == trimStart(trimEnd(s))

-----------------------------------------------------------------------------
(* src/src/sandbox-ops.ts: the command policy *)

DevNull == <<"/", "d", "e", "v", "/", "n", "u", "l", "l">>

SAFE_TRAILING_REDIRECTS ==
    << <<">">> \o DevNull \o <<" ", "2", ">", "&", "1">>,
       <<"&", ">">> \o DevNull,
       <<"2", ">">> \o DevNull,
       <<"2", ">", "&", "1">> >>

\* the strip with the list tried from its last entry to its first
stripSafeTrailingRedirectsLastFirst(command) ==
    LET stripped == trimEnd(command)
        hits == {k \in 1..Len(SAFE_TRAILING_REDIRECTS) :
                    EndsWith(stripped, SAFE_TRAILING_REDIRECTS[k])}
    IN IF hits = {} THEN stripped
       ELSE LET redirect == SAFE_TRAILING_REDIRECTS[CHOOSE k \in hits : \A m \in hits : k >= m]
            IN trimEnd(SubSeq(stripped, 1, Len(stripped) - Len(redirect)))

stripSafeTrailingRedirects(command) ==
    LET stripped == trimEnd(command)
        hits == {k \in 1..Len(SAFE_TRAILING_REDIRECTS) :
                    EndsWith(stripped, SAFE_TRAILING_REDIRECTS[k])}
    IN IF hits = {} THEN stripped
       ELSE LET redirect == SAFE_TRAILING_REDIRECTS[CHOOSE k \in hits : \A m \in hits : k <= m]
            IN trimEnd(SubSeq(stripped, 1, Len(stripped) - Len(redirect)))

\* the token texts of a parsed stream, taken while they are words or globs
RECURSIVE commandTokens(_)
commandTokens(parsed) ==
    IF parsed = <<>> THEN <<>>
    ELSE <<Head(parsed).v>> \o commandTokens(Tail(parsed))

isCompoundStream(parsed) ==
    \E k \in 1..Len(parsed) : parsed[k].t \notin {"str", "glob"}

\* parseCommand with operator tokens skipped instead of making the command compound
parseCommandSkippingOperators(command) ==
    LET parsed == parse(trim(stripSafeTrailingRedirects(command))) IN
    [isCompound |-> FALSE,
     tokens |-> commandTokens(SelectSeq(parsed, LAMBDA tk : tk.t \in {"str", "glob"}))]

parseCommand(command) ==
    LET parsed == parse(trim(stripSafeTrailingRedirects(command))) IN
    IF isCompoundStream(parsed) THEN [isCompound |-> TRUE, tokens |-> <<>>]
    ELSE [isCompound |-> FALSE, tokens |-> commandTokens(parsed)]

parsePattern(pattern) ==
    LET parsed == parse(trim(pattern))
        strings == SelectSeq(parsed, LAMBDA tk : tk.t = "str")
    IN [tokens |-> commandTokens(strings),
        isPrefixMatch |-> /\ parsed # <<>>
                          /\ parsed[Len(parsed)].t = "glob"
                          /\ parsed[Len(parsed)].v = <<"*">>]

\* patternTokens.every((token, i) => token === commandTokens[i])
everyTokenEqual(patternTokens, cmdTokens) ==
    \A k \in 1..Len(patternTokens) : k <= Len(cmdTokens) /\ patternTokens[k] = cmdTokens[k]

patternMatches(pattern, cmdTokens) ==
    LET pp == parsePattern(pattern) IN
    IF pp.isPrefixMatch
    THEN Len(pp.tokens) <= Len(cmdTokens) /\ everyTokenEqual(pp.tokens, cmdTokens)
    ELSE Len(pp.tokens) = Len(cmdTokens) /\ everyTokenEqual(pp.tokens, cmdTokens)

isUnsandboxedCommand(command, unsandboxedCommands) ==
    LET pc == parseCommand(command) IN
    IF pc.isCompound THEN FALSE
    ELSE \E k \in 1..Len(unsandboxedCommands) :
            patternMatches(unsandboxedCommands[k], pc.tokens)

-----------------------------------------------------------------------------
(* Inputs of the path policy *)

\* Segment names: a home and a working directory, a dot directory (".s", as
\* ".ssh" or ".pi"), a name that only shares its text as a prefix (".s-"),
\* a file with an extension ("a.p", as "server.pem"), the same as a dotfile
\* (".a.p") and a plain name
SegNames ==
    { <<"h">>, <<"w">>, <<"k">>, <<".", "s">>, <<".", "s", "-">>,
      <<"a", ".", "p">>, <<".", "a", ".", "p">> }

\* absolute, normalised paths of 1..n segments
AbsPaths(n) == {JoinAbs(segs) : segs \in SeqsOf(SegNames, 1, n)}

Cwds == { <<"/", "w">>, <<"/", "h", "/", "w">> }

\* Patterns given to pathMatchesPattern: "~", "~/.s", ".", "./k", "/w",
\* "/w/k", "h/.s" without wildcards; ".s", "a.p" without separator;
\* "*.p", "?.p", ".a.*", "*", "a*", "*.*" with wildcards and no separator;
\* "k/*.p", "/w/*", "/w/?", "/w/.*", "/w/**" with both; "***a.p", "***..",
\* "/w/***/a.p" with three stars where a path segment starts
Patterns ==
    { <<"~">>, <<"~", "/", ".", "s">>, <<".">>, <<".", "/", "k">>,
      <<"/", "w">>, <<"/", "w", "/", "k">>, <<"h", "/", ".", "s">>,
      <<".", "s">>, <<"a", ".", "p">>,
      <<"*", ".", "p">>, <<"?", ".", "p">>, <<".", "a", ".", "*">>, <<"*">>,
      <<"a", "*">>, <<"*", ".", "*">>,
      <<"k", "/", "*", ".", "p">>, <<"/", "w", "/", "*">>, <<"/", "w", "/", "?">>,
      <<"/", "w", "/", ".", "*">>, <<"/", "w", "/", "*", "*">>,
      <<"*", "*", "*", "a", ".", "p">>, <<"*", "*", "*", ".", ".">>,
      <<"/", "w", "/", "*", "*", "*", "/", "a", ".", "p">> }

\* absolute paths as a caller may spell them, which resolvePath leaves as they
\* are: "/w/.s//", "/w/a.p//", "/w/k/", "/w/.", "/w/..", "/w/a.", and names
\* with a line feed: "/w/a\nk", "/w/\na.p", "/w/k\n", "/w/\n", and names that
\* differ from "a.p" in the place of the dot: "/w/axp", "/w/k/axp"
SpeltPaths ==
    { <<"/", "w", "/", ".", "s", "/", "/">>, <<"/", "w", "/", "a", ".", "p", "/", "/">>,
      <<"/", "w", "/", "k", "/">>, <<"/", "w", "/", ".">>, <<"/", "w", "/", ".", ".">>,
      <<"/", "w", "/", "a", ".">>,
      <<"/", "w", "/", "a", "\n", "k">>, <<"/", "w", "/", "\n", "a", ".", "p">>,
      <<"/", "w", "/", "k", "\n">>, <<"/", "w", "/", "\n">>,
      <<"/", "w", "/", "a", "x", "p">>, <<"/", "w", "/", "k", "/", "a", "x", "p">> }

\* Patterns of the configured lists: ".", "~/.s", ".s"
ListPatterns ==
    { <<".">>, <<"~", "/", ".", "s">>, <<".", "s">> }

\* Paths given to isReadAllowed / isWriteAllowed: relative, "~"-relative and
\* absolute spellings, three of them with a line feed in a name
InputPaths ==
    { <<"~">>, <<"~", "/", ".", "s">>, <<"~", "/", ".", "s", "/", "k">>,
      <<"~", "/", ".", "s", "/", ".", "a", ".", "p">>,
      <<"~", "/", ".", "s", "-">>,
      <<"k">>, <<".", "/", "k">>, <<"a", ".", "p">>, <<".", "a", ".", "p">>,
      <<"k", "/", "a", ".", "p">>, <<".", "s">>, <<".", "s", "/", "k">>,
      <<".", ".", "/", "k">>,
      <<"/", "h", "/", ".", "s">>, <<"/", "h", "/", ".", "s", "/", "k">>,
      <<"/", "h", "/", ".", "s", "/", "k", "/", "k">>,
      <<"/", "h", "/", "k">>, <<"/", "w", "/", "k">>, <<"/", "w">>,
      <<"/", "k">>, <<"/", "k", "/", "a", ".", "p">>,
      <<"/", "k", "/", ".", "s", "/", "k">>,
      <<"/", "w", "/", ".", ".", "/", "k">>,
      <<"/", "h", "/", ".", "/", ".", "s">>,
      <<"/", "h", "/", ".", "s", "/", "/">>, <<"/", "w", "/", ".", "s", "/", "/">>,
      <<"~", "/", ".", "s", "/", "a", "\n", "k">>, <<"k", "/", "a", "\n", "k">>,
      <<"/", "h", "/", ".", "s", "/", "k", "\n">> }

NoList == [def |-> FALSE, v |-> <<>>]

\* an optional list of at most n patterns
OptLists(n) ==
    {NoList} \cup {[def |-> TRUE, v |-> l] : l \in SeqsOf(ListPatterns, 0, n)}

\* a configuration without a filesystem section
NoFilesystem ==
    [present |-> FALSE, denyRead |-> NoList, allowWrite |-> NoList, denyWrite |-> NoList]

\* the list ["***.."], and no list
StarLists ==
    {NoList, [def |-> TRUE, v |-> << <<"*", "*", "*", ".", ".">> >>]}

ReadConfigs ==
    {NoFilesystem} \cup
    {[present |-> TRUE, denyRead |-> d, allowWrite |-> NoList, denyWrite |-> NoList] :
        d \in OptLists(MaxList) \cup StarLists}

WriteConfigs ==
    {NoFilesystem} \cup
    {[present |-> TRUE, denyRead |-> NoList, allowWrite |-> a, denyWrite |-> d] :
        a \in OptLists(MaxList), d \in OptLists(MaxList)} \cup
    {[present |-> TRUE, denyRead |-> NoList, allowWrite |-> a, denyWrite |-> d] :
        a \in StarLists, d \in StarLists}

-----------------------------------------------------------------------------
(* Inputs of the command policy *)

\* Atoms of a command body: two words, a blank, a glob star, a quote and the
\* operator "&&"
Atoms ==
    { <<"n">>, <<"t">>, <<" ">>, <<"*">>, <<"'">>, <<"&", "&">> }

\* What follows the body: nothing, each safe redirect after a blank, two
\* stacked safe redirects (" 2>&1 2>/dev/null", " 2>&1 >/dev/null 2>&1"), a
\* redirect to or from a file, an appending redirect, a second command after
\* ";", "||", "|" or on the next line, a carriage return alone and after a
\* safe redirect, and a word after a no-break space
Suffixes ==
    { <<>>,
      <<" ", "2", ">", "&", "1">>,
      <<" ", "2", ">">> \o DevNull,
      <<" ", "&", ">">> \o DevNull,
      <<" ", ">">> \o DevNull \o <<" ", "2", ">", "&", "1">>,
      <<" ", ">", " ", "f">>,
      <<" ", "<", " ", "f">>,
      <<" ", ">", ">", " ", "f">>,
      <<";", " ", "t">>,
      <<" ", "|", "|", " ", "t">>,
      <<" ", "|", " ", "t">>,
      <<" ", "2", ">", "&", "1", " ", "2", ">">> \o DevNull,
      <<" ", "2", ">", "&", "1", " ", ">">> \o DevNull \o <<" ", "2", ">", "&", "1">>,
      <<"\n", "t">>,
      <<"\r">>,
      <<" ", "2", ">", "&", "1", "\r">>,
      <<"U+00A0", "t">> }

Commands ==
    {Flatten(body) \o sfx : body \in SeqsOf(Atoms, 0, MaxAtoms), sfx \in Suffixes}

\* Command bodies, before the suffix
Bodies == {Flatten(body) : body \in SeqsOf(Atoms, 0, MaxAtoms)}

\* Pattern lists: ["*"], ["n t"], ["n *"], ["", "n t"], ["n t", "*"],
\* ["* *"], ["", " "]
PatternLists ==
    { << <<"*">> >>,
      << <<"n", " ", "t">> >>,
      << <<"n", " ", "*">> >>,
      << <<>>, <<"n", " ", "t">> >>,
      << <<"n", " ", "t">>, <<"*">> >>,
      << <<"*", " ", "*">> >>,
      << <<>>, <<" ">> >> }

\* The lists a command is checked against: the fixed ones, the command
\* itself as the only pattern, and its body as the only pattern
PatternListsFor(body, sfx) == PatternLists \cup { <<body>>, <<body \o sfx>> }

-----------------------------------------------------------------------------
(* The path policy as a state machine: one call of one of its functions *)

\* the promise of an exec call: not settled yet
Pending == [kind |-> "pending", error |-> "", code |-> "", duration |-> 0]

\* the stand-in of DEFAULT_CONFIG.filesystem with the names of the model:
\* denyRead ["~/.s"], allowWrite ["."], denyWrite [".s"]
DefaultFilesystem ==
    [present |-> TRUE,
     denyRead |-> [def |-> TRUE, v |-> << <<"~", "/", ".", "s">> >>],
     allowWrite |-> [def |-> TRUE, v |-> << <<".">> >>],
     denyWrite |-> [def |-> TRUE, v |-> << <<".", "s">> >>]]

\* DEFAULT_CONFIG: enabled, no unsandboxedCommands
DEFAULT_CONFIG ==
    [enabled |-> TRUE, unsandboxedCommands |-> NoList, filesystem |-> DefaultFilesystem]

\* no decision taken yet
NoCall ==
    [tool |-> "none", arg |-> <<>>, unsandboxed |-> FALSE, hasUI |-> FALSE,
     approved |-> FALSE, at |-> "idle", enabled |-> FALSE, config |-> DEFAULT_CONFIG,
     route |-> "none", checked |-> FALSE, named |-> <<>>]

\* the extension is not loaded
SsIdle ==
    /\ ssPc = "idle"
    /\ ssNoSandbox = FALSE
    /\ ssLoaded = DEFAULT_CONFIG
    /\ ssPlatformOk = FALSE
    /\ ssInitialize = "none"
    /\ stEnabled = FALSE
    /\ stConfig = DEFAULT_CONFIG
    /\ tlCall = NoCall

\* no exec call
ExIdle ==
    /\ exPc = "idle"
    /\ exCwdExists = FALSE
    /\ exTimeout = [def |-> FALSE, v |-> 0]
    /\ exHasSignal = FALSE
    /\ exAborted = FALSE
    /\ exAbortAt = "none"
    /\ exListener = FALSE
    /\ exTimer = "none"
    /\ exTimedOut = FALSE
    /\ exChild = "none"
    /\ exPid = FALSE
    /\ exGroupAlive = FALSE
    /\ exPipesHeldBy = "nobody"
    /\ exExit = ""
    /\ exKills = <<>>
    /\ exData = <<>>
    /\ exAnnotated = "unqueried"
    /\ exOutcome = Pending
    /\ exSettles = 0

\* no command-policy call
CmdIdle ==
    /\ cmdCommand = <<>>
    /\ cmdPatterns = <<>>
    /\ cmdDone = FALSE
    /\ cmdResult = FALSE

InitPath ==
    /\ CmdIdle
    /\ ExIdle
    /\ SsIdle
    /\ fsDone = FALSE
    /\ fsResult = FALSE
    /\ fsCwd \in Cwds
    /\ \/ /\ fsOp = "match"
          /\ fsPath \in AbsPaths(MaxDepth) \cup SpeltPaths
          /\ fsPattern \in Patterns
          /\ fsConfig = NoFilesystem
       \/ /\ fsOp = "read"
          /\ fsPath \in InputPaths
          /\ fsPattern = <<>>
          /\ fsConfig \in ReadConfigs
       \/ /\ fsOp = "write"
          /\ fsPath \in InputPaths
          /\ fsPattern = <<>>
          /\ fsConfig \in WriteConfigs

CallPathMatchesPattern ==
    /\ fsOp = "match" /\ ~fsDone
    /\ fsResult' = pathMatchesPattern(fsPath, fsPattern, fsCwd)
    /\ fsDone' = TRUE
    /\ UNCHANGED <<fsOp, fsPath, fsPattern, fsCwd, fsConfig, cmdVars, exVars, ssVars>>

CallIsReadAllowed ==
    /\ fsOp = "read" /\ ~fsDone
    /\ fsResult' = isReadAllowed(fsPath, fsCwd, fsConfig)
    /\ fsDone' = TRUE
    /\ UNCHANGED <<fsOp, fsPath, fsPattern, fsCwd, fsConfig, cmdVars, exVars, ssVars>>

CallIsWriteAllowed ==
    /\ fsOp = "write" /\ ~fsDone
    /\ fsResult' = isWriteAllowed(fsPath, fsCwd, fsConfig)
    /\ fsDone' = TRUE
    /\ UNCHANGED <<fsOp, fsPath, fsPattern, fsCwd, fsConfig, cmdVars, exVars, ssVars>>

NextPath ==
    \/ CallPathMatchesPattern
    \/ CallIsReadAllowed
    \/ CallIsWriteAllowed

SpecPath == InitPath /\ [][NextPath]_vars

-----------------------------------------------------------------------------
(* The command policy as a state machine: one call of isUnsandboxedCommand *)

\* no path-policy call
FsIdle ==
    /\ fsOp = "none"
    /\ fsPath = <<>>
    /\ fsPattern = <<>>
    /\ fsCwd = <<>>
    /\ fsConfig = NoFilesystem
    /\ fsDone = FALSE
    /\ fsResult = FALSE

InitCmd ==
    /\ FsIdle
    /\ ExIdle
    /\ SsIdle
    /\ \E body \in Bodies, sfx \in Suffixes :
          /\ cmdCommand = body \o sfx
          /\ cmdPatterns \in PatternListsFor(body, sfx)
    /\ cmdDone = FALSE
    /\ cmdResult = FALSE

CallIsUnsandboxedCommand ==
    /\ ~cmdDone
    /\ cmdResult' = isUnsandboxedCommand(cmdCommand, cmdPatterns)
    /\ cmdDone' = TRUE
    /\ UNCHANGED <<cmdCommand, cmdPatterns, fsVars, exVars, ssVars>>

NextCmd == CallIsUnsandboxedCommand

SpecCmd == InitCmd /\ [][NextCmd]_vars

-----------------------------------------------------------------------------
(* src/src/sandbox-ops.ts: createSandboxedBashOps().exec, one invocation.  *)
(* Each action is one synchronous run of the event loop: the body of exec  *)
(* up to an await, the promise executor, or one event handler.             *)

\* the timeout values exec is called with: undefined, or -1 .. MaxTimeout
Timeouts ==
    {[def |-> FALSE, v |-> 0]} \cup {[def |-> TRUE, v |-> n] : n \in -1..MaxTimeout}

Resolved(code) == [kind |-> "resolve", error |-> "", code |-> code, duration |-> 0]

Rejected(error, duration) ==
    [kind |-> "reject", error |-> error, code |-> "", duration |-> duration]

\* timeout !== undefined && timeout > 0
armsTimer(timeout) == timeout.def /\ timeout.v > 0

\* resolve / reject of a promise: the first call settles it, later ones do nothing
settle(outcome, with) == IF outcome.kind = "pending" THEN with ELSE outcome

\* the close handler's verdict: signal?.aborted, then timedOut, then the exit code
closeVerdict(aborted, timedOut, code, timeout) ==
    IF aborted THEN Rejected("aborted", 0)
    ELSE IF timedOut THEN Rejected("timeout", timeout.v)
    ELSE Resolved(code)

\* the kill calls of the timer callback and of onAbort. process.kill on the
\* group succeeds, or throws: ESRCH when the group is gone, EPERM when the
\* signal may not be sent (denied: its processes run as another user). In
\* the catch block child.kill signals the child while the runtime holds its
\* handle, that is until the exit event; for SIGKILL it never throws, and a
\* signal that is refused makes it emit "error" on the child
killCalls(by, denied) ==
    IF ~exPid THEN <<>>
    ELSE IF exGroupAlive /\ ~denied
    THEN << [by |-> by, target |-> "group", threw |-> FALSE, err |-> "none"] >>
    ELSE << [by |-> by, target |-> "group", threw |-> TRUE,
             err |-> IF exGroupAlive THEN "EPERM" ELSE "ESRCH"],
            [by |-> by, target |-> "child", threw |-> FALSE,
             err |-> IF exChild = "running" /\ denied THEN "EPERM" ELSE "none"] >>

\* child.kill emitted "error": the error handler runs inside the kill call
emitsError(calls) ==
    \E k \in 1..Len(calls) : calls[k].target = "child" /\ calls[k].err = "EPERM"

\* those calls only send the signal: the child and its group are as they were
\* when the handler returns, and the runtime learns of the death later. The
\* error handler, when child.kill calls it, rejects with the kill error
Kill(by, denied) ==
    LET calls == killCalls(by, denied) IN
    /\ exKills' = exKills \o calls
    /\ IF emitsError(calls)
       THEN /\ exOutcome' = settle(exOutcome, Rejected("kill", 0))
            /\ exSettles' = exSettles + 1
       ELSE UNCHANGED <<exOutcome, exSettles>>
    /\ UNCHANGED <<exChild, exExit, exGroupAlive, exPipesHeldBy>>

\* SIGKILL was delivered to the child's process group
Signalled ==
    \E k \in 1..Len(exKills) : exKills[k].target = "group" /\ ~exKills[k].threw

InitExec ==
    /\ FsIdle
    /\ CmdIdle
    /\ SsIdle
    /\ exPc = "called"
    /\ exCwdExists \in BOOLEAN
    /\ exTimeout \in Timeouts
    /\ exHasSignal \in BOOLEAN
    /\ exAborted \in (IF exHasSignal THEN BOOLEAN ELSE {FALSE})
    /\ exAbortAt = (IF exAborted THEN "entry" ELSE "none")
    /\ exListener = FALSE
    /\ exTimer = "none"
    /\ exTimedOut = FALSE
    /\ exChild = "none"
    /\ exPid = FALSE
    /\ exGroupAlive = FALSE
    /\ exPipesHeldBy = "nobody"
    /\ exExit = ""
    /\ exKills = <<>>
    /\ exData = <<>>
    /\ exAnnotated = "unqueried"
    /\ exOutcome = Pending
    /\ exSettles = 0

\* exec's body without the working directory check
ExecEnterUnchecked ==
    /\ exPc = "called"
    /\ exPc' = "wrapping"
    /\ UNCHANGED <<exCwdExists, exTimeout, exHasSignal, exAborted, exAbortAt, exListener,
                   exTimer, exTimedOut, exChild, exPid, exGroupAlive, exPipesHeldBy, exExit, exKills,
                   exData, exAnnotated, exOutcome, exSettles, fsVars, cmdVars, ssVars>>

\* exec's body up to the await: the working directory check, then the call
\* of SandboxManager.wrapWithSandbox
ExecEnter ==
    /\ exPc = "called"
    /\ IF ~exCwdExists
       THEN /\ exPc' = "thrown"
            /\ exOutcome' = settle(exOutcome, Rejected("nodir", 0))
            /\ exSettles' = exSettles + 1
       ELSE /\ exPc' = "wrapping"
            /\ UNCHANGED <<exOutcome, exSettles>>
    /\ UNCHANGED <<exCwdExists, exTimeout, exHasSignal, exAborted, exAbortAt, exListener,
                   exTimer, exTimedOut, exChild, exPid, exGroupAlive, exPipesHeldBy, exExit, exKills,
                   exData, exAnnotated, fsVars, cmdVars, ssVars>>

\* wrapWithSandbox rejects: exec rejects with its error
WrapRejects ==
    /\ exPc = "wrapping"
    /\ exPc' = "thrown"
    /\ exOutcome' = settle(exOutcome, Rejected("wrap", 0))
    /\ exSettles' = exSettles + 1
    /\ UNCHANGED <<exCwdExists, exTimeout, exHasSignal, exAborted, exAbortAt, exListener,
                   exTimer, exTimedOut, exChild, exPid, exGroupAlive, exPipesHeldBy, exExit, exKills,
                   exData, exAnnotated, fsVars, cmdVars, ssVars>>

\* what spawn does: the process starts ("started"), it does not and the
\* "error" event is to come ("failed"), or spawn itself throws ("threw")
SpawnResults == {"started", "failed", "threw"}

\* wrapWithSandbox resolves and the promise executor runs: spawn, then the
\* timer and the listeners; when spawn throws, the executor ends there and
\* the promise is rejected with what was thrown
Spawn(how) ==
    /\ exPc = "wrapping"
    /\ IF how = "threw"
       THEN /\ exPc' = "thrown"
            /\ exOutcome' = settle(exOutcome, Rejected("spawn", 0))
            /\ exSettles' = exSettles + 1
            /\ UNCHANGED <<exChild, exPid, exGroupAlive, exPipesHeldBy, exTimer, exListener>>
       ELSE /\ exPc' = "spawned"
            /\ exChild' = IF how = "started" THEN "running" ELSE "spawnFailed"
            /\ exPid' = (how = "started")
            /\ exGroupAlive' = (how = "started")
            /\ exPipesHeldBy' = IF how = "started" THEN "child" ELSE "nobody"
            /\ exTimer' = IF armsTimer(exTimeout) THEN "armed" ELSE "none"
            /\ exListener' = exHasSignal
            /\ UNCHANGED <<exOutcome, exSettles>>
    /\ UNCHANGED <<exCwdExists, exTimeout, exHasSignal, exAborted, exAbortAt, exTimedOut,
                   exExit, exKills, exData, exAnnotated, fsVars, cmdVars, ssVars>>

SpawnChild == \E how \in SpawnResults : Spawn(how)

\* the child's "error" event of a failed spawn: it is emitted on the next
\* tick, before any timer can expire (the "error" of a refused child.kill is
\* emitted inside the kill call, see Kill)
ChildError ==
    /\ exChild = "spawnFailed"
    /\ exChild' = "errored"
    /\ exExit' = "-2"
    /\ exTimer' = IF exTimer = "armed" THEN "cleared" ELSE exTimer
    /\ exOutcome' = settle(exOutcome, Rejected("spawn", 0))
    /\ exSettles' = exSettles + 1
    /\ UNCHANGED <<exPc, exCwdExists, exTimeout, exHasSignal, exAborted, exAbortAt,
                   exListener, exTimedOut, exPid, exGroupAlive, exPipesHeldBy, exKills, exData, exAnnotated,
                   fsVars, cmdVars, ssVars>>

\* the cancel signal fires; onAbort runs when it is registered (once). After
\* a failed spawn it may run before the "error" event: promise jobs come
\* before the next tick. denied: the kill is refused
AbortFires(denied) ==
    /\ exPc \notin {"idle", "called"}
    /\ exHasSignal /\ ~exAborted
    /\ exAborted' = TRUE
    /\ exAbortAt' = (IF exPc = "spawned" THEN exChild ELSE exPc)
    /\ exListener' = FALSE
    /\ IF exListener
       THEN /\ Kill("abort", denied)
            /\ exTimer' = IF emitsError(killCalls("abort", denied)) /\ exTimer = "armed"
                          THEN "cleared" ELSE exTimer
       ELSE UNCHANGED <<exKills, exChild, exExit, exGroupAlive, exPipesHeldBy, exOutcome,
                        exSettles, exTimer>>
    /\ UNCHANGED <<exPc, exCwdExists, exTimeout, exHasSignal, exTimedOut, exPid,
                   exData, exAnnotated, fsVars, cmdVars, ssVars>>

Abort == \E denied \in BOOLEAN : AbortFires(denied)

\* the timeout timer expires; denied: the kill is refused
TimerExpires(denied) ==
    /\ exTimer = "armed"
    /\ exChild # "spawnFailed"
    /\ exTimer' = "fired"
    /\ exTimedOut' = TRUE
    /\ Kill("timer", denied)
    /\ UNCHANGED <<exPc, exCwdExists, exTimeout, exHasSignal, exAborted, exAbortAt,
                   exListener, exPid, exData, exAnnotated, fsVars, cmdVars, ssVars>>

TimerFires == \E denied \in BOOLEAN : TimerExpires(denied)

\* the child writes to stdout or stderr: a "data" event, handed to onData
ChildOutput ==
    /\ exChild \in {"running", "exited"}
    /\ Len(SelectSeq(exData, LAMBDA d : d.chunk = "output")) < MaxChunks
    /\ exData' = Append(exData, [chunk |-> "output", empty |-> FALSE,
                                  settled |-> exOutcome.kind # "pending"])
    /\ UNCHANGED <<exAnnotated, exPc, exCwdExists, exTimeout, exHasSignal, exAborted, exAbortAt,
                   exListener, exTimer, exTimedOut, exChild, exPid, exGroupAlive, exPipesHeldBy, exExit,
                   exKills, exOutcome, exSettles, fsVars, cmdVars, ssVars>>

\* who can keep the pipes open once the child has ended: a descendant in
\* its process group when the group is still there, a descendant that left
\* the group (setsid), or nobody
PipeHolders(groupLeft) ==
    {"nobody", "outside"} \cup (IF groupLeft THEN {"group"} ELSE {})

\* the runtime learns that the child has ended, with exit code code ("null"
\* when a signal ended it); groupLeft says whether its process group is
\* still there, holder who keeps its stdout / stderr open
Exit(code, groupLeft, holder) ==
    /\ exChild = "running"
    /\ exChild' = "exited"
    /\ exExit' = code
    /\ exGroupAlive' = groupLeft
    /\ exPipesHeldBy' = holder
    /\ UNCHANGED <<exPc, exCwdExists, exTimeout, exHasSignal, exAborted, exAbortAt,
                   exListener, exTimer, exTimedOut, exPid, exKills, exData, exAnnotated, exOutcome,
                   exSettles, fsVars, cmdVars, ssVars>>

\* the child ends on its own, or of a signal that exec did not send (code
\* "null"); descendants may outlive it
ChildExits ==
    \E code \in {"0", "1", "null"}, groupLeft \in BOOLEAN :
        \E holder \in PipeHolders(groupLeft) : Exit(code, groupLeft, holder)

\* the child dies of the SIGKILL sent to its group
ChildKilled ==
    \E groupLeft \in BOOLEAN :
        \E holder \in PipeHolders(groupLeft) : Signalled /\ Exit("null", groupLeft, holder)

\* the last process of the child's group ends, after the child: the group is
\* gone, and so is its hold on the pipes
GroupEnds ==
    /\ exChild \in {"exited", "closed"}
    /\ exGroupAlive
    /\ exGroupAlive' = FALSE
    /\ exPipesHeldBy' = IF exPipesHeldBy = "group" THEN "nobody" ELSE exPipesHeldBy
    /\ UNCHANGED <<exPc, exCwdExists, exTimeout, exHasSignal, exAborted, exAbortAt,
                   exListener, exTimer, exTimedOut, exChild, exPid, exExit, exKills, exData,
                   exAnnotated, exOutcome, exSettles, fsVars, cmdVars, ssVars>>

\* the processes of the group die of the SIGKILL sent to it
GroupKilled == Signalled /\ GroupEnds

\* the descendant that keeps the pipes open closes them or ends; one that
\* left the group is out of reach of exec's kills and may never do so
PipesReleased ==
    /\ exChild = "exited"
    /\ exPipesHeldBy \in {"group", "outside"}
    /\ exPipesHeldBy' = "nobody"
    /\ UNCHANGED <<exPc, exCwdExists, exTimeout, exHasSignal, exAborted, exAbortAt,
                   exListener, exTimer, exTimedOut, exChild, exPid, exGroupAlive, exExit,
                   exKills, exData, exAnnotated, exOutcome, exSettles, fsVars, cmdVars, ssVars>>

\* what annotateStderrWithSandboxFailures(command, "") can return: its input
\* unchanged ("noop", the empty string) or a text about sandbox violations
Annotations == {"noop", "text"}

\* the child's "close" event, emitted when the child has ended and both
\* pipes are closed; annotated is what the annotation returns if it is asked
Close(annotated) ==
    /\ exChild \in {"exited", "errored"}
    /\ exPipesHeldBy = "nobody"
    /\ exChild' = "closed"
    /\ exTimer' = IF exTimer = "armed" THEN "cleared" ELSE exTimer
    /\ exListener' = FALSE
    /\ LET verdict == closeVerdict(exAborted, exTimedOut, exExit, exTimeout) IN
       /\ IF verdict.kind = "resolve" /\ exExit # "0"
          THEN /\ exAnnotated' = annotated
               /\ exData' = Append(exData, [chunk |-> "diagnostic",
                                            empty |-> annotated = "noop",
                                            settled |-> exOutcome.kind # "pending"])
          ELSE UNCHANGED <<exData, exAnnotated>>
       /\ exOutcome' = settle(exOutcome, verdict)
    /\ exSettles' = exSettles + 1
    /\ UNCHANGED <<exPc, exCwdExists, exTimeout, exHasSignal, exAborted, exAbortAt,
                   exTimedOut, exPid, exGroupAlive, exPipesHeldBy, exExit, exKills, fsVars, cmdVars, ssVars>>

ChildClose == \E annotated \in Annotations : Close(annotated)

NextExec ==
    \/ ExecEnter
    \/ WrapRejects
    \/ SpawnChild
    \/ ChildError
    \/ Abort
    \/ TimerFires
    \/ ChildOutput
    \/ ChildExits
    \/ ChildKilled
    \/ GroupEnds
    \/ PipesReleased
    \/ ChildClose

SpecExec == InitExec /\ [][NextExec]_vars

\* The runtime delivers what is pending: the next-tick error of a failed
\* spawn, the death of a child and of a group that were sent SIGKILL, and the
\* close event of a child that has ended and whose pipes are closed. Nothing
\* makes a descendant outside the group let go of the pipes
SpecExecFair ==
    InitExec /\ [][NextExec]_vars
        /\ WF_vars(ChildError) /\ WF_vars(ChildKilled) /\ WF_vars(GroupKilled)
        /\ WF_vars(ChildClose)

-----------------------------------------------------------------------------
(* The extension: session_start and the tool wrappers (index.ts, tools/) *)

\* state.initialized as tools/bash.ts reads it: the object index.ts builds is
\* { enabled, config } and no handler assigns the field, so the read gives
\* undefined, which is falsy
stInitialized == FALSE

\* a configuration file without content: {}
EmptyFile ==
    [enabled |-> "unset", unsandboxedCommands |-> NoList,
     filesystem |-> [present |-> FALSE, denyRead |-> NoList, allowWrite |-> NoList,
                     denyWrite |-> NoList]]

\* the contents of sandbox.json: {}, { enabled: false },
\* { unsandboxedCommands: ["n *"] } and { filesystem: { denyRead: [] } }
ConfigFiles ==
    {EmptyFile,
     [EmptyFile EXCEPT !.enabled = "false"],
     [EmptyFile EXCEPT !.unsandboxedCommands = [def |-> TRUE, v |-> << <<"n", " ", "*">> >>]],
     [EmptyFile EXCEPT !.filesystem.present = TRUE,
                       !.filesystem.denyRead = [def |-> TRUE, v |-> <<>>]]}

\* { ...base, ...overrides } on one optional list
spread(base, override) == IF override.def THEN override ELSE base

\* deepMerge copies enabled and the lists of filesystem from overrides; its
\* result starts as { ...base } and no line copies unsandboxedCommands
deepMerge(base, overrides) ==
    [enabled |-> IF overrides.enabled = "unset" THEN base.enabled
                 ELSE overrides.enabled = "true",
     unsandboxedCommands |-> base.unsandboxedCommands,
     filesystem |->
        IF overrides.filesystem.present
        THEN [present |-> TRUE,
              denyRead |-> spread(base.filesystem.denyRead, overrides.filesystem.denyRead),
              allowWrite |-> spread(base.filesystem.allowWrite, overrides.filesystem.allowWrite),
              denyWrite |-> spread(base.filesystem.denyWrite, overrides.filesystem.denyWrite)]
        ELSE base.filesystem]

\* loadConfig: the defaults, then the global file, then the project file
loadConfig(globalConfig, projectConfig) ==
    deepMerge(deepMerge(DEFAULT_CONFIG, globalConfig), projectConfig)

\* what loadConfig may return
LoadedConfigs == {loadConfig(g, p) : g \in ConfigFiles, p \in ConfigFiles}

\* the commands handed to the bash tool
ToolCommands == {<<"n", " ", "t">>, <<"t">>}

\* the paths handed to the read, write and edit tools
ToolPaths == {<<"k">>, <<".", "s">>, <<"~", "/", ".", "s", "/", "k">>}

\* the working directory the tools were created with
ToolCwd == <<"/", "w">>

FileTools == {"read", "write", "edit"}

\* state.config.unsandboxedCommands ?? []
unsandboxedCommandsOf(config) ==
    IF config.unsandboxedCommands.def THEN config.unsandboxedCommands.v ELSE <<>>

\* the branch execute of the bash tool takes
bashRoute(enabled, initialized, isAutoApproved, unsandboxed, hasUI, approved) ==
    IF ~enabled \/ ~initialized \/ isAutoApproved THEN "original"
    ELSE IF ~unsandboxed THEN "sandboxed"
    ELSE IF ~hasUI THEN "error"
    ELSE IF ~approved THEN "error"
    ELSE "original"

\* the policy the tool consults: isReadAllowed for read, isWriteAllowed for
\* write and edit
policyAllows(tool, path, config) ==
    IF tool = "read" THEN isReadAllowed(path, ToolCwd, config.filesystem)
    ELSE isWriteAllowed(path, ToolCwd, config.filesystem)

\* the branch execute of a file tool takes, with the policy never consulted
fileRouteUnchecked(tool, path, enabled, config, unsandboxed, hasUI) ==
    IF ~enabled THEN [route |-> "original", checked |-> FALSE, named |-> <<>>]
    ELSE IF ~unsandboxed THEN [route |-> "original", checked |-> FALSE, named |-> <<>>]
    ELSE IF ~hasUI THEN [route |-> "error", checked |-> FALSE, named |-> <<>>]
    ELSE [route |-> "confirming", checked |-> FALSE, named |-> <<>>]

\* the branch execute of a file tool takes up to its return, its throw or
\* its await: "denied" throws the error that names params.path, "error"
\* throws the no-UI error, "confirming" is the await of ctx.ui.confirm
fileRoute(tool, path, enabled, config, unsandboxed, hasUI) ==
    IF ~enabled THEN [route |-> "original", checked |-> FALSE, named |-> <<>>]
    ELSE IF ~unsandboxed
         THEN IF ~policyAllows(tool, path, config)
              THEN [route |-> "denied", checked |-> TRUE, named |-> path]
              ELSE [route |-> "original", checked |-> TRUE, named |-> <<>>]
    ELSE IF ~hasUI THEN [route |-> "error", checked |-> FALSE, named |-> <<>>]
    ELSE [route |-> "confirming", checked |-> FALSE, named |-> <<>>]

\* execute of a file tool after the await: the user-denied error, or the
\* original tool
confirmedRoute(approved) == IF ~approved THEN "error" ELSE "original"

\* the extension function has run: state is { enabled: false, DEFAULT_CONFIG }
\* and the bash tool and the handlers are registered
InitSession ==
    /\ FsIdle
    /\ CmdIdle
    /\ ExIdle
    /\ ssPc = "loaded"
    /\ ssNoSandbox \in BOOLEAN
    /\ ssLoaded \in LoadedConfigs
    /\ ssPlatformOk \in BOOLEAN
    /\ ssInitialize = "none"
    /\ stEnabled = FALSE
    /\ stConfig = DEFAULT_CONFIG
    /\ tlCall = NoCall

\* session_start up to its first await or return
SessionStart ==
    /\ ssPc = "loaded"
    /\ IF ssNoSandbox
       THEN /\ stEnabled' = FALSE
            /\ ssPc' = "done"
            /\ UNCHANGED stConfig
       ELSE /\ stConfig' = ssLoaded
            /\ IF ~ssLoaded.enabled \/ ~ssPlatformOk
               THEN /\ stEnabled' = FALSE
                    /\ ssPc' = "done"
               ELSE /\ ssPc' = "awaiting"
                    /\ UNCHANGED stEnabled
    /\ UNCHANGED <<ssNoSandbox, ssLoaded, ssPlatformOk, ssInitialize, tlCall,
                   fsVars, cmdVars, exVars>>

\* SandboxManager.initialize settles and session_start resumes
Initialized(ok) ==
    /\ ssPc = "awaiting"
    /\ ssPc' = "done"
    /\ ssInitialize' = IF ok THEN "ok" ELSE "failed"
    /\ stEnabled' = ok
    /\ UNCHANGED <<ssNoSandbox, ssLoaded, ssPlatformOk, stConfig, tlCall,
                   fsVars, cmdVars, exVars>>

InitializeSettles == \E ok \in BOOLEAN : Initialized(ok)

\* what a decision records: the call, the state it read, the branch taken
Decided(tool, arg, unsandboxed, hasUI, approved, verdict) ==
    /\ tlCall' = [tool |-> tool, arg |-> arg, unsandboxed |-> unsandboxed, hasUI |-> hasUI,
                  approved |-> approved, at |-> ssPc, enabled |-> stEnabled,
                  config |-> stConfig, route |-> verdict.route,
                  checked |-> verdict.checked, named |-> verdict.named]
    /\ UNCHANGED <<ssPc, ssNoSandbox, ssLoaded, ssPlatformOk, ssInitialize, stEnabled,
                   stConfig, fsVars, cmdVars, exVars>>

\* execute of the bash tool. The test of line 53 reads state.initialized,
\* which is never set, so execute returns at line 54 before it can reach the
\* await of ctx.ui.confirm: the decision is taken in one run
BashExecute(command, unsandboxed, hasUI, approved) ==
    LET isAutoApproved == isUnsandboxedCommand(command, unsandboxedCommandsOf(stConfig)) IN
    Decided("bash", command, unsandboxed, hasUI, approved,
            [route |-> bashRoute(stEnabled, stInitialized, isAutoApproved,
                                 unsandboxed, hasUI, approved),
             checked |-> FALSE, named |-> <<>>])

\* a call of the bash tool, registered when the extension is loaded: execute
\* runs whenever it is called, before session_start, while session_start is
\* suspended, or after it
BashTool ==
    /\ ssPc # "idle"
    /\ \E command \in ToolCommands, unsandboxed \in BOOLEAN, hasUI \in BOOLEAN,
          approved \in BOOLEAN :
          BashExecute(command, unsandboxed, hasUI, approved)

\* the user_bash handler: sandboxed operations when enabled, nothing
\* otherwise; it runs whenever the event is delivered
UserBash ==
    /\ ssPc # "idle"
    /\ \E command \in ToolCommands :
          Decided("user_bash", command, FALSE, FALSE, FALSE,
                  [route |-> IF stEnabled THEN "sandboxed" ELSE "original",
                   checked |-> FALSE, named |-> <<>>])

NextSession ==
    \/ SessionStart
    \/ InitializeSettles
    \/ BashTool
    \/ UserBash

SpecSession == InitSession /\ [][NextSession]_vars

-----------------------------------------------------------------------------
(* The read, write and edit tools (tools/read.ts, tools/write.ts and the   *)
(* edit tool): one call of execute on a tool created with a state object.  *)
(* index.ts registers the bash tool only, so the state these tools are     *)
(* given is whatever their creator holds: any enabled flag, any loaded     *)
(* configuration.                                                          *)

\* a file tool was created with a state and has not been called
InitFileTool ==
    /\ FsIdle
    /\ CmdIdle
    /\ ExIdle
    /\ ssPc = "idle"
    /\ ssNoSandbox = FALSE
    /\ ssLoaded = DEFAULT_CONFIG
    /\ ssPlatformOk = FALSE
    /\ ssInitialize = "none"
    /\ stEnabled \in BOOLEAN
    /\ stConfig \in LoadedConfigs
    /\ tlCall = NoCall

\* execute of the read, write or edit tool up to its return, its throw or
\* its await of ctx.ui.confirm; the state is read in this run only
FileExecute(tool, path, unsandboxed, hasUI) ==
    /\ tlCall.tool = "none"
    /\ Decided(tool, path, unsandboxed, hasUI, FALSE,
               fileRoute(tool, path, stEnabled, stConfig, unsandboxed, hasUI))

FileTool ==
    \E tool \in FileTools, path \in ToolPaths, unsandboxed \in BOOLEAN, hasUI \in BOOLEAN :
        FileExecute(tool, path, unsandboxed, hasUI)

\* ctx.ui.confirm resolves and execute resumes
FileConfirmed(approved) ==
    /\ tlCall.route = "confirming"
    /\ tlCall' = [tlCall EXCEPT !.approved = approved, !.route = confirmedRoute(approved)]
    /\ UNCHANGED <<ssPc, ssNoSandbox, ssLoaded, ssPlatformOk, ssInitialize, stEnabled,
                   stConfig, fsVars, cmdVars, exVars>>

ConfirmSettles == \E approved \in BOOLEAN : FileConfirmed(approved)

NextFileTool ==
    \/ FileTool
    \/ ConfirmSettles

SpecFileTool == InitFileTool /\ [][NextFileTool]_vars

-----------------------------------------------------------------------------
(* Properties of the path policy (checked under SpecPath) *)

\* the absolute path the policy decides on
FsAbsolute == resolvePath(fsPath, fsCwd)

\* the location a pattern denotes once "~" and cwd are applied
FsLocation == resolvePattern(expandTilde(fsPattern), fsCwd)

\* some pattern of an optional list matches the absolute path
FsListed(l) == l.def /\ someMatch(l.v, FsAbsolute, fsCwd)

\* path is location itself or lies beneath it, by segments
Beneath(path, location) ==
    path = location \/ StartsWith(path, location \o <<"/">>)

RECURSIVE PlainGlob(_, _)
\* the glob of the specification on one segment: "*" is any run of
\* characters other than "/", "?" is exactly one such character
PlainGlob(seg, glob) ==
    IF glob = <<>> THEN seg = <<>>
    ELSE IF Head(glob) = "*"
    THEN \E k \in 0..Len(seg) :
            /\ \A q \in 1..k : seg[q] # "/"
            /\ PlainGlob(Slice(seg, k), Tail(glob))
    ELSE IF Head(glob) = "?"
    THEN seg # <<>> /\ Head(seg) # "/" /\ PlainGlob(Tail(seg), Tail(glob))
    ELSE seg # <<>> /\ Head(seg) = Head(glob) /\ PlainGlob(Tail(seg), Tail(glob))

\* C2: a write to a path that matches a denyWrite pattern is refused,
\* whatever allowWrite holds
C2_DenyWins ==
    (fsOp = "write" /\ fsDone /\ fsConfig.present /\ FsListed(fsConfig.denyWrite))
        => fsResult = FALSE

\* a refused write whose path matches both a denyWrite and an allowWrite pattern
C2_Witness ==
    /\ fsOp = "write" /\ fsDone /\ fsConfig.present
    /\ FsListed(fsConfig.denyWrite) /\ FsListed(fsConfig.allowWrite)
    /\ fsResult = FALSE

\* C3: a pattern without wildcards that denotes a location P matches P and
\* every path beneath P, and no path that continues P's text inside a segment
C3_DirectoryPrefix ==
    (fsOp = "match" /\ fsDone /\ ~hasWildcard(fsPattern) /\ Includes(FsLocation, "/"))
        => /\ Beneath(fsPath, FsLocation) => fsResult = TRUE
           /\ (StartsWith(fsPath, FsLocation) /\ ~Beneath(fsPath, FsLocation))
                 => fsResult = FALSE

\* C4: a pattern N without wildcard and separator matches every path that has
\* N as its final segment or lies beneath such an entry, and a write to such
\* a path is refused when denyWrite = [N]
C4_NameAndChildren ==
    /\ (fsOp = "match" /\ fsDone /\ ~hasWildcard(fsPattern)
            /\ ~Includes(FsLocation, "/")
            /\ \E k \in 1..Len(Split(fsPath)) : Split(fsPath)[k] = fsPattern)
          => fsResult = TRUE
    /\ (fsOp = "write" /\ fsDone /\ fsConfig.present /\ fsConfig.denyWrite.def
            /\ Len(fsConfig.denyWrite.v) = 1
            /\ fsConfig.denyWrite.v[1] = <<".", "s">>
            /\ \E k \in 1..Len(Split(FsAbsolute)) : Split(FsAbsolute)[k] = <<".", "s">>)
          => fsResult = FALSE

\* C5: a pattern with a wildcard and no separator matches exactly the paths
\* whose final segment matches the glob, "*" being any run of characters
\* other than "/" and "?" one such character
C5_BasenameGlob ==
    (fsOp = "match" /\ fsDone /\ hasWildcard(fsPattern) /\ ~Includes(fsPattern, "/"))
        => fsResult = PlainGlob(basename(fsPath), fsPattern)

\* C6: a read is allowed when denyRead is empty or absent, otherwise it is
\* refused exactly when the resolved path matches a denyRead pattern; with
\* denyRead = ["~/.s"] the directory and everything in it is refused
C6_ReadAllowed ==
    (fsOp = "read" /\ fsDone)
        => /\ ~(fsConfig.present /\ isSet(fsConfig.denyRead)) => fsResult = TRUE
           /\ (fsConfig.present /\ isSet(fsConfig.denyRead))
                 => fsResult = ~FsListed(fsConfig.denyRead)
           /\ (fsConfig.present /\ fsConfig.denyRead.def
                 /\ fsConfig.denyRead.v = << <<"~", "/", ".", "s">> >>
                 /\ Beneath(FsAbsolute, homedir \o <<"/", ".", "s">>))
                 => fsResult = FALSE

\* C7: a write to a path that matches no denyWrite pattern is allowed exactly
\* when it matches an allowWrite pattern, and always when allowWrite is empty
\* or absent
C7_AllowList ==
    (fsOp = "write" /\ fsDone /\ ~(fsConfig.present /\ FsListed(fsConfig.denyWrite)))
        => IF fsConfig.present /\ isSet(fsConfig.allowWrite)
           THEN fsResult = FsListed(fsConfig.allowWrite)
           ELSE fsResult = TRUE

\* a refused write: no denyWrite pattern matches, allowWrite is non-empty and
\* none of its patterns matches either
C7_Witness ==
    /\ fsOp = "write" /\ fsDone /\ fsConfig.present
    /\ isSet(fsConfig.denyWrite) /\ ~FsListed(fsConfig.denyWrite)
    /\ isSet(fsConfig.allowWrite) /\ ~FsListed(fsConfig.allowWrite)
    /\ fsResult = FALSE

-----------------------------------------------------------------------------
(* Properties of the command policy (checked under SpecCmd) *)

\* the token stream the command is parsed into, after the redirect strip
CmdParsed == parse(trim(stripSafeTrailingRedirects(cmdCommand)))

\* the stream holds a shell operator
CmdHasOperator == \E k \in 1..Len(CmdParsed) : CmdParsed[k].t = "op"

\* C1: a command whose parsed token stream holds a shell operator is matched
\* by no pattern list, the bare "*" included
C1_CompoundNeverMatches ==
    (cmdDone /\ CmdHasOperator) => cmdResult = FALSE

\* a refused command that holds a word and an operator, the list holding "*"
C1_Witness ==
    /\ cmdDone /\ CmdHasOperator
    /\ \E k \in 1..Len(CmdParsed) : CmdParsed[k].t = "str"
    /\ \E k \in 1..Len(cmdPatterns) : cmdPatterns[k] = <<"*">>
    /\ cmdResult = FALSE

-----------------------------------------------------------------------------
(* Properties of exec                                                      *)

Cancelled == Rejected("aborted", 0)

\* a kill call by the handler by was made on the child's process group
GroupKilledBy(by) ==
    \E k \in 1..Len(exKills) : exKills[k].by = by /\ exKills[k].target = "group"

\* C8: when the cancel signal fires while the child is running, the
\* invocation never resolves and never rejects with Timeout, and once the
\* close event is handled it has rejected with Cancelled
C8_CancelBeatsTimeout ==
    exAbortAt = "running" =>
        /\ exOutcome \in {Pending, Cancelled}
        /\ exChild = "closed" => exOutcome = Cancelled

\* C9: whenever the cancel signal has fired by the time the child ends on
\* its own - already on entry, during the wait for wrapWithSandbox, or while
\* the child runs - the child's process group was sent a kill by the cancel
\* handler and the invocation ends as Cancelled
C9_CancelAlwaysKills ==
    (exPid /\ exChild = "closed" /\ exAbortAt \in {"entry", "wrapping", "running"}) =>
        /\ GroupKilledBy("abort")
        /\ exOutcome = Cancelled

\* C10: (a) an expired timer means the process group was sent a kill; (b) an
\* expired timer without a cancel never lets the invocation resolve, and
\* (c) leads to the rejection Timeout carrying the configured duration unless
\* a cancel fires; (d) with timeout undefined or <= 0 no timer is armed and
\* no Timeout is ever reported
C10_Timeout ==
    /\ [](exTimedOut => GroupKilledBy("timer"))
    /\ []((exTimedOut /\ ~exAborted) => exOutcome.kind # "resolve")
    /\ (exTimedOut ~> (exAborted \/ exOutcome = Rejected("timeout", exTimeout.v)))
    /\ [](~(exTimeout.def /\ exTimeout.v > 0) =>
            (exTimer = "none" /\ ~exTimedOut /\ exOutcome.error # "timeout"))

\* C11: when the child ended on its own (exit code 0 or 1) before the cancel
\* signal fired, and no timer expired, the closed invocation has resolved
\* with the child's exit code
C11_ExitSupersedesCancel ==
    (exAbortAt = "exited" /\ exExit \in {"0", "1"} /\ ~exTimedOut /\ exChild = "closed")
        => exOutcome = Resolved(exExit)

\* C12: an invocation that has spawned a child reports one outcome out of
\* Completed, TimedOut, Cancelled and Failed: it rejects with no other error,
\* it has reported by the time the child has closed, a reported outcome is
\* never changed, and once the child has ended an outcome is reported
C12_OneOutcome ==
    /\ []((exPc = "spawned" /\ exOutcome.kind = "reject") =>
            exOutcome.error \in {"timeout", "aborted", "spawn"})
    /\ [](exChild = "closed" => exOutcome # Pending)
    /\ [][exOutcome # Pending => exOutcome' = exOutcome]_vars
    /\ [](exChild = "exited" => <>(exOutcome # Pending))

\* C13: with a working directory that does not exist, exec has failed with
\* the directory-not-found error as soon as it has run: it never waits for
\* wrapWithSandbox, spawns nothing, arms no timer, registers no listener
C13_DirectoryNotFound ==
    (~exCwdExists /\ exPc \notin {"idle", "called"}) =>
        /\ exPc = "thrown"
        /\ exOutcome = Rejected("nodir", 0)
        /\ exChild = "none" /\ ~exPid
        /\ exTimer = "none"
        /\ ~exListener
        /\ exKills = <<>>

\* C13: exec was called with a timeout and a signal on a missing directory,
\* the signal fired afterwards, and the call has failed with nothing started
C13_Witness ==
    /\ ~exCwdExists /\ exPc = "thrown"
    /\ exTimeout.def /\ exTimeout.v > 0
    /\ exHasSignal /\ exAborted
    /\ exOutcome = Rejected("nodir", 0)
    /\ exChild = "none"

\* a diagnostic chunk was handed to onData by the close handler
DiagnosticDelivered ==
    \E k \in 1..Len(exData) : exData[k].chunk = "diagnostic"

\* C20: after a spawned child has closed, a diagnostic chunk is delivered
\* only when the annotation returned a text; an annotation that returned its
\* input unchanged delivers none, and after exit code 0 the annotation is not
\* asked
C20_AnnotationChunk ==
    /\ (exPid /\ DiagnosticDelivered) => exAnnotated = "text"
    /\ (exChild = "closed" /\ exExit = "0") => exAnnotated = "unqueried"

-----------------------------------------------------------------------------
(* Properties of command patterns (checked under SpecCmd) *)

\* the command is simple: parseCommand gives a token sequence
CmdSimple == ~parseCommand(cmdCommand).isCompound

\* the tokens of the command
CmdTokens == parseCommand(cmdCommand).tokens

\* a text that parses without any operator
NoOperator(text) == ~isCompoundStream(parse(trim(text)))

\* a pattern tokenized as a command is: words and globs, by their texts
TokensOf(pattern) == commandTokens(parse(trim(pattern)))

\* the final token of the pattern is a bare "*"
EndsInBareStar(pattern) ==
    LET parsed == parse(trim(pattern)) IN
    /\ parsed # <<>>
    /\ parsed[Len(parsed)] = [t |-> "glob", v |-> <<"*">>]

\* the one pattern of a list of one
OnlyPattern == cmdPatterns[1]

\* the redirects that are not stripped: to a file, from a file
UnsafeRedirects == { <<" ", ">", " ", "f">>, <<" ", "<", " ", "f">> }

\* C14: a simple command c followed by a blank and a safe redirect is matched
\* by the list [c]; a command that ends in a redirect to or from a file is
\* matched by no list
C14_SafeRedirectStripped ==
    /\ (cmdDone /\ Len(cmdPatterns) = 1 /\ NoOperator(OnlyPattern)
          /\ \E k \in 1..Len(SAFE_TRAILING_REDIRECTS) :
                cmdCommand = OnlyPattern \o <<" ">> \o SAFE_TRAILING_REDIRECTS[k])
          => cmdResult = TRUE
    /\ (cmdDone /\ \E sfx \in UnsafeRedirects : EndsWith(cmdCommand, sfx))
          => cmdResult = FALSE

\* C15: a simple command c followed by "> file", "< file" or a trailing
\* "2>&1" is not matched by the list [c]
C15_RedirectsRejected ==
    (cmdDone /\ Len(cmdPatterns) = 1 /\ NoOperator(OnlyPattern)
       /\ \E sfx \in UnsafeRedirects \cup { <<" ", "2", ">", "&", "1">> } :
             cmdCommand = OnlyPattern \o sfx)
       => cmdResult = FALSE

\* C16: against one pattern that ends in a bare "*", a simple command matches
\* exactly when the pattern's tokens before the "*" are, position by
\* position, the first tokens of the command
C16_PrefixPattern ==
    (cmdDone /\ CmdSimple /\ Len(cmdPatterns) = 1
       /\ NoOperator(OnlyPattern) /\ EndsInBareStar(OnlyPattern))
       => LET fixed == SubSeq(TokensOf(OnlyPattern), 1, Len(TokensOf(OnlyPattern)) - 1)
          IN cmdResult = (/\ Len(fixed) <= Len(CmdTokens)
                          /\ \A k \in 1..Len(fixed) : fixed[k] = CmdTokens[k])

\* C17: against one non-empty pattern that does not end in a bare "*", a
\* simple command matches exactly when its token sequence is the pattern's
C17_ExactPattern ==
    (cmdDone /\ CmdSimple /\ Len(cmdPatterns) = 1
       /\ NoOperator(OnlyPattern) /\ ~EndsInBareStar(OnlyPattern)
       /\ TokensOf(OnlyPattern) # <<>>)
       => cmdResult = (TokensOf(OnlyPattern) = CmdTokens)

\* C18: a simple command used verbatim as the only pattern matches itself,
\* and parsePattern keeps every token of it but a final bare "*"
C18_PatternAsCommand ==
    (cmdDone /\ CmdSimple /\ cmdPatterns = <<cmdCommand>>)
       => /\ cmdResult = TRUE
          /\ Len(parsePattern(cmdCommand).tokens)
                + (IF parsePattern(cmdCommand).isPrefixMatch THEN 1 ELSE 0)
                = Len(parse(trim(cmdCommand)))

\* C19: the result is the one the list gives without its empty and
\* whitespace-only entries
C19_EmptyPatternsSkipped ==
    cmdDone =>
        cmdResult = isUnsandboxedCommand(cmdCommand,
                        SelectSeq(cmdPatterns, LAMBDA pattern : trim(pattern) # <<>>))

-----------------------------------------------------------------------------
(* Path spellings (checked under SpecPath) *)

\* the location a path string denotes: "~" and cwd applied, "." and ".."
\* segments resolved
FsDenoted == resolve(<<"/">>, FsAbsolute)

\* C27: a read or write of a path gets the verdict that the normalized
\* absolute spelling of the same location gets
C27_SpellingIndependent ==
    /\ (fsOp = "read" /\ fsDone) => fsResult = isReadAllowed(FsDenoted, fsCwd, fsConfig)
    /\ (fsOp = "write" /\ fsDone) => fsResult = isWriteAllowed(FsDenoted, fsCwd, fsConfig)

-----------------------------------------------------------------------------
(* Redirect stripping and line breaks (checked under SpecCmd) *)

\* " >/dev/null 2>&1", the first entry of the list after a blank
DiscardAll == <<" ">> \o SAFE_TRAILING_REDIRECTS[1]

\* two safe redirects, one after the other: " 2>&1 2>/dev/null"
Stacked == <<" ">> \o SAFE_TRAILING_REDIRECTS[4] \o <<" ">> \o SAFE_TRAILING_REDIRECTS[3]

\* the command without its last n characters
CmdWithout(n) == SubSeq(cmdCommand, 1, Len(cmdCommand) - n)

\* the verdict of the list on a text that is parsed as it stands, no redirect
\* stripped from it
MatchedAsItStands(text, patterns) ==
    LET parsed == parse(trim(text)) IN
    /\ ~isCompoundStream(parsed)
    /\ \E k \in 1..Len(patterns) : patternMatches(patterns[k], commandTokens(parsed))

TwoLines ==
    \E i \in 1..Len(cmdCommand) :
        /\ cmdCommand[i] = "\n"
        /\ trim(SubSeq(cmdCommand, 1, i - 1)) # <<>>
        /\ trim(SubSeq(cmdCommand, i + 1, Len(cmdCommand))) # <<>>
        /\ \A q \in Quotes :
              Len(SelectSeq(SubSeq(cmdCommand, 1, i - 1), LAMBDA c : c = q)) % 2 = 0
        /\ ~isCompoundStream(parse(trim(SubSeq(cmdCommand, 1, i - 1))))

\* C28: a command of two lines is matched by no list
C28_LineBreakIsCompound ==
    (cmdDone /\ TwoLines) => cmdResult = FALSE

-----------------------------------------------------------------------------
(* Kills, listeners and late output of exec (checked under SpecExec) *)

\* C23: every failed kill of the process group is followed at once by a
\* kill of the child handle by the same handler, no kill of the child handle
\* raises or emits an error, and the failures of a spawned invocation are
\* Timeout, Cancelled and the spawn error only
C23_KillBestEffort ==
    /\ \A k \in 1..Len(exKills) :
          /\ (exKills[k].target = "group" /\ exKills[k].threw) =>
                /\ k < Len(exKills)
                /\ exKills[k + 1].target = "child"
                /\ exKills[k + 1].by = exKills[k].by
          /\ exKills[k].target = "child" => (~exKills[k].threw /\ exKills[k].err = "none")
    /\ (exPc = "spawned" /\ exOutcome.kind = "reject") =>
          exOutcome.error \in {"timeout", "aborted", "spawn"}

\* C29: once a spawned invocation has reported its outcome, its timer is not
\* armed and its cancel listener is not registered
C29_NothingLeftRegistered ==
    (exPc = "spawned" /\ exOutcome # Pending) => (exTimer # "armed" /\ ~exListener)

\* C30: no chunk is handed to onData after the outcome was reported
C30_NoLateOutput ==
    \A k \in 1..Len(exData) : ~exData[k].settled

-----------------------------------------------------------------------------
(* Properties of the tool wrappers (checked under SpecSession and SpecFileTool) *)

\* the decision recorded is one of a file tool
FileCall == tlCall.tool \in FileTools

\* what the policy says of the decision recorded
CallAllowed == policyAllows(tlCall.tool, tlCall.arg, tlCall.config)

\* session_start initialized the sandbox and the decision was taken after it
AfterInitialized == tlCall.at = "done" /\ ssInitialize = "ok"

\* the bash decision recorded matched a pattern of unsandboxedCommands
CallAutoApproved == isUnsandboxedCommand(tlCall.arg, unsandboxedCommandsOf(tlCall.config))

\* C24: once the sandbox is initialized, a bash call that matches no pattern
\* and does not ask for unsandboxed runs through the sandboxed operations
C24_SandboxedByDefault ==
    (/\ tlCall.tool = "bash"
     /\ AfterInitialized
     /\ ~CallAutoApproved
     /\ ~tlCall.unsandboxed)
    => tlCall.route = "sandboxed"

\* C25: the bash tool runs the original bash only when the sandbox is not
\* enabled, when a pattern matches, or when unsandboxed was asked for and the
\* user approved; asked for without a UI or declined, it returns an error
C25_UnsandboxedOnlyWhenApproved ==
    tlCall.tool = "bash" =>
        /\ tlCall.route = "original" =>
              \/ ~tlCall.enabled
              \/ CallAutoApproved
              \/ tlCall.unsandboxed /\ tlCall.hasUI /\ tlCall.approved
        /\ (/\ tlCall.enabled
            /\ ~CallAutoApproved
            /\ tlCall.unsandboxed
            /\ ~(tlCall.hasUI /\ tlCall.approved))
           => tlCall.route = "error"

\* C26: with the sandbox enabled and unsandboxed not asked for, a file tool
\* whose path the policy refuses throws the error naming that path and does
\* not run the original tool; the original tool runs without a policy check
\* only with the sandbox disabled or after the user approved
C26_FileToolsGuarded ==
    FileCall =>
        /\ (tlCall.enabled /\ ~tlCall.unsandboxed /\ ~CallAllowed)
           => (tlCall.route = "denied" /\ tlCall.named = tlCall.arg)
        /\ (tlCall.route = "original" /\ ~tlCall.checked)
           => \/ ~tlCall.enabled
              \/ tlCall.unsandboxed /\ tlCall.hasUI /\ tlCall.approved

\* an edit of a path the policy refuses was denied with the sandbox enabled,
\* the error naming the path
C26_Witness ==
    /\ tlCall.tool = "edit"
    /\ tlCall.enabled
    /\ ~tlCall.unsandboxed
    /\ ~CallAllowed
    /\ tlCall.route = "denied"
    /\ tlCall.named = tlCall.arg


=============================================================================
